---- MODULE Spec2Model ----
(***************************************************************************)
(* Block Builder workflow engine: the LangGraph workflow of workflow.ts     *)
(* with the stage functions of nodes.js, the retry helper and the circuit   *)
(* breaker of retry.ts.                                                     *)
(*                                                                          *)
(* Four specifications share the module:                                    *)
(*   Spec         runWorkflow / resumeWorkflow calls on workflow threads    *)
(*   SpecRetry    one retryWithBackoff call under every small configuration *)
(*   SpecBreaker  one CircuitBreaker shared by concurrent execute callers   *)
(*   SpecStore    one StatePersistence over a directory of state files      *)
(***************************************************************************)
EXTENDS Integers, Sequences, FiniteSets, TLC

VARIABLES
  \* ---- workflow (workflow.ts, nodes) ----
  callers,      \* thread ids on which calls are made in this scenario
  pc,           \* pc[t]: "idle", the node about to run, "returned", "threw"
  call,         \* call[t]: the call in flight or last returned on thread t
  st,           \* st[t]: channel values of the graph run in flight
  saver,        \* saver[t]: thread t's checkpoint in the MemorySaver of the
                \*           graph compiled by the latest call on t
  result,       \* result[t]: what the last call on t returned
  ran,          \* ran[t]: stage functions executed by the call, in order
  conn,         \* conn[t]: connector calls made by the call and their results
  ncalls,       \* ncalls[t]: calls started on t
  suspended,    \* suspended[t]: the last runWorkflow on t paused at interrupt()
  clock,        \* new Date(): the time in milliseconds the stages stamp
  \* ---- retryWithBackoff (retry.ts) ----
  rcfg,         \* { maxRetries, initialDelay, maxDelay, backoffMultiplier }
  rpc,          \* "start", "calling", "sleeping", "returned", "thrown"
  attempt,      \* loop variable of retryWithBackoff
  delay,        \* local variable delay
  lastError,    \* local variable lastError (its message; "" when undefined)
  fnCalls,      \* messages fn has failed with / "ok", one entry per invocation
  waits,        \* the delays waited, in order
  \* ---- CircuitBreaker (retry.ts) ----
  threshold,    \* constructor argument
  resetTimeout, \* constructor argument
  failures,     \* private failures
  lastFailureTime, \* private lastFailureTime; 0 stands for undefined
  bstate,       \* private state
  now,          \* Date.now()
  inflight,     \* inflight[c]: caller c awaits fn() inside execute
  executes,     \* execute calls made so far
  lastEntry,    \* what the latest execute call met and did on entry
  fails,        \* failed calls since the breaker was constructed or reset
  succs,        \* successful calls since the breaker was constructed or reset
  \* ---- StatePersistence (state persistence utilities) ----
  stateDir,     \* config.stateDir
  files,        \* the files on disk: records { path, content, mtime }
  stime,        \* the clock saveState stamps generated names with
  lastSave,     \* the latest saveState call, until another write or delete
  loaded,       \* what the latest loadState or findLatestState call returned
                \* or threw
  cleaned,      \* what the latest cleanupOldStates call returned or threw
  listing       \* a listStates call: its phase, what readdir gave it, the
                \* paths written or deleted since, what it returned

wfVars == <<callers, pc, call, st, saver, result, ran, conn, ncalls, suspended,
           clock>>
retryVars == <<rcfg, rpc, attempt, delay, lastError, fnCalls, waits>>
breakerVars == <<threshold, resetTimeout, failures, lastFailureTime, bstate,
                 now, inflight, executes, lastEntry, fails, succs>>
storeVars == <<stateDir, files, stime, lastSave, loaded, cleaned, listing>>
vars == <<wfVars, retryVars, breakerVars, storeVars>>

----------------------------------------------------------------------------
\* Bounds of the model.

\* calls (runWorkflow or resumeWorkflow) started per thread
MaxCalls == 2
\* largest maxRetries of a retry configuration
MaxRetriesBound == 2
\* largest initialDelay and maxDelay of a retry configuration
MaxDelayBound == 3
\* largest backoffMultiplier of a retry configuration
MaxMultiplier == 2
\* largest threshold a breaker is constructed with
MaxThreshold == 3
\* largest resetTimeout a breaker is constructed with
MaxResetTimeout == 2
\* the clock stops here
MaxTime == 4
\* execute calls made on the breaker
MaxExecutes == 5
\* the clock of the state files stops here
MaxStoreTime == 2
\* state files on disk at a time
MaxFiles == 2
MaxKeepCount == 1
\* the clock of the workflow stops here
MaxClock == 2

----------------------------------------------------------------------------
\* Text helpers: JavaScript's toLowerCase and RegExp.test for literal patterns.

UpperCase == "ABCDEFGHIJKLMNOPQRSTUVWXYZ"
LowerCase == "abcdefghijklmnopqrstuvwxyz"

LowerChar(c) ==
  IF \E i \in 1..Len(UpperCase) : SubSeq(UpperCase, i, i) = c
  THEN LET i == CHOOSE j \in 1..Len(UpperCase) : SubSeq(UpperCase, j, j) = c
       IN SubSeq(LowerCase, i, i)
  ELSE c

RECURSIVE ToLowerCase(_)
ToLowerCase(s) ==
  IF Len(s) = 0 THEN ""
  ELSE LowerChar(SubSeq(s, 1, 1)) \o ToLowerCase(SubSeq(s, 2, Len(s)))

\* /p/i.test(s) for a pattern p without metacharacters, given in lower case
TestIgnoreCase(p, s) ==
  LET low == ToLowerCase(s)
  IN \E i \in 1..(Len(low) - Len(p) + 1) : SubSeq(low, i, i + Len(p) - 1) = p

----------------------------------------------------------------------------
\* types.ts: WorkflowStep, WorkflowInput, WorkflowState. Of WorkflowInput the
\* model keeps the fields a stage branches on; blockName, outputPath and the
\* options handed through to the connectors are left out. Artifacts
\* (design context, analysis, files, validation) are present or undefined.

INITIALIZED == "initialized"
EXTRACTING_DESIGN == "extracting_design"
GETTING_SCREENSHOT == "getting_screenshot"
AWAITING_USER_INPUT == "awaiting_user_input"
ANALYZING == "analyzing"
GENERATING == "generating"
VALIDATING == "validating"
UPDATING_SECTION_MODEL == "updating_section_model"
COMPLETED == "completed"
FAILED == "failed"

Unset == "undefined"

Threads == {"t1", "t2"}

\* figmaUrl: which pattern of parseFigmaUrl the URL's path has, and its
\* node-id query parameter ("" when the URL has none)
FigmaUrls ==
  [present : {TRUE}, path : {"design", "proto"}, nodeParam : {"", "1-2"}]
NoUrl == [present |-> FALSE, path |-> "", nodeParam |-> ""]

WorkflowInputs ==
  [ figmaNodeId : {Unset, "13157:13513"},
    figmaUrl : FigmaUrls \cup {NoUrl},
    figmaFileKey : {Unset},
    skipScreenshot : BOOLEAN,
    validateOutput : BOOLEAN,
    updateSectionModel : BOOLEAN ]

NoInput ==
  [ figmaNodeId |-> Unset, figmaUrl |-> NoUrl, figmaFileKey |-> Unset,
    skipScreenshot |-> FALSE, validateOutput |-> FALSE,
    updateSectionModel |-> FALSE ]

NoScreenshot == [data |-> Unset, format |-> Unset]

\* duration: undefined, a number of milliseconds, or NaN
NoDuration == [kind |-> "undefined", ms |-> 0]
Milliseconds(n) == [kind |-> "number", ms |-> n]
NaN == [kind |-> "NaN", ms |-> 0]

\* new Date(ms).toISOString(), for the first milliseconds of a day
ToISOString(ms) == "2024-01-01T00:00:00.00" \o ToString(ms) \o "Z"

\* new Date(iso).getTime() - new Date(iso2).getTime(); NaN when a string is
\* not a date
TimeBetween(iso, iso2) ==
  LET Dates == {n \in 0..9 : TRUE}
      Parsed(str) == {n \in Dates : ToISOString(n) = str}
  IN IF Parsed(iso) = {} \/ Parsed(iso2) = {} THEN NaN
     ELSE Milliseconds((CHOOSE n \in Parsed(iso) : TRUE)
                       - (CHOOSE n \in Parsed(iso2) : TRUE))

\* the values of a thread with no checkpoint: every channel empty
EmptyValues ==
  [ input |-> NoInput,
    designContext |-> Unset,
    screenshot |-> NoScreenshot,
    userProvidedScreenshot |-> FALSE,
    analysis |-> Unset,
    generatedFiles |-> Unset,
    validation |-> Unset,
    currentStep |-> Unset,
    awaitingUserInput |-> Unset,
    errors |-> <<>>,
    startTime |-> Unset,
    endTime |-> Unset,
    duration |-> NoDuration ]

\* user input handed to resumeWorkflow: a string, or { data, format }
StringInput(s) == [isObject |-> FALSE, text |-> s, data |-> "", format |-> ""]
ObjectInput(d, f) == [isObject |-> TRUE, text |-> "", data |-> d, format |-> f]
UserInputs ==
  { StringInput("skip"), StringInput("Skip"), StringInput("later"),
    ObjectInput("img-a", "png"), ObjectInput("img-b", "jpg"),
    ObjectInput("", "png") }

\* what a connector call comes back with: the data the tool is to return,
\* data of another shape ("malformed": a truthy value without the fields),
\* or an error message
ConnectorResults == {"ok", "malformed", "timeout", "unauthorized"}

----------------------------------------------------------------------------
\* mcp-client.ts

RECURSIVE ReplaceDashes(_)
\* match[2].replace(/-/g, ':')
ReplaceDashes(s) ==
  IF Len(s) = 0 THEN ""
  ELSE (IF SubSeq(s, 1, 1) = "-" THEN ":" ELSE SubSeq(s, 1, 1))
         \o ReplaceDashes(SubSeq(s, 2, Len(s)))

\* parseFigmaUrl: null (nodeId undefined here) unless the URL is
\* figma.com/design/<key>/..?node-id=<id> or figma.com/file/<key>/..?node-id=<id>
ParseFigmaUrl(url) ==
  IF url.path \in {"design", "file"} /\ Len(url.nodeParam) > 0
  THEN [fileKey |-> "KEY", nodeId |-> ReplaceDashes(url.nodeParam)]
  ELSE [fileKey |-> Unset, nodeId |-> Unset]

\* FigmaMCPClient / EDSGeneratorMCPClient wrappers: every failure of the tool
\* call, thrown or returned, comes back as { success: false, error }; any
\* truthy data comes back as { success: true, data }
Success(r) == r \in {"ok", "malformed"}

----------------------------------------------------------------------------
\* nodes: the stage functions. Each returns a partial state; the connector's
\* result r is the stage's only input besides the state.

\* one call of a connector tool and what it came back with
ConnectorCall(tool, r) == [tool |-> tool, result |-> r]

WorkflowError(step, message, retryable) ==
  [step |-> step, message |-> message, retryable |-> retryable]

InitializeWorkflow(s) ==
  LET parsed == ParseFigmaUrl(s.input.figmaUrl)
  IN IF s.input.figmaUrl.present /\ s.input.figmaNodeId = Unset
        /\ parsed.nodeId # Unset
     THEN [ input |-> [s.input EXCEPT !.figmaNodeId = parsed.nodeId,
                                      !.figmaFileKey = parsed.fileKey],
            currentStep |-> EXTRACTING_DESIGN,
            startTime |-> ToISOString(clock),
            errors |-> <<>> ]
     ELSE [ currentStep |-> EXTRACTING_DESIGN,
            startTime |-> ToISOString(clock),
            errors |-> <<>> ]

\* the connector calls a stage makes in state s
\* extractDesignContext calling the connector without looking at the node id
ExtractDesignCallsUnguarded(s, r) == <<ConnectorCall("getDesignContext", r)>>

ExtractDesignCalls(s, r) ==
  IF s.input.figmaNodeId = Unset THEN <<>> ELSE <<ConnectorCall("getDesignContext", r)>>

ExtractDesignContext(s, r) ==
  IF s.input.figmaNodeId = Unset
  THEN [ currentStep |-> FAILED,
         errors |-> Append(s.errors,
           WorkflowError(EXTRACTING_DESIGN, "No Figma node ID provided", FALSE)) ]
  ELSE IF ~Success(r)
  THEN [ currentStep |-> FAILED,
         errors |-> Append(s.errors,
           WorkflowError(EXTRACTING_DESIGN, r, TRUE)) ]
  ELSE [ designContext |-> "design",
         currentStep |-> IF s.input.skipScreenshot
                         THEN ANALYZING ELSE GETTING_SCREENSHOT ]

GetScreenshotCalls(s, r) ==
  IF s.input.figmaNodeId = Unset THEN <<>> ELSE <<ConnectorCall("getScreenshot", r)>>

\* getScreenshot reaches interrupt(): the call throws out of the stage
GetScreenshotInterrupts(s, r) ==
  s.input.figmaNodeId # Unset /\ ~Success(r)

\* getScreenshot where it returns. The lines that follow interrupt() in
\* the source run only in a graph resumed with a resume command, which
\* resumeWorkflow never issues.
GetScreenshot(s, r) ==
  IF s.input.figmaNodeId = Unset
  THEN [ currentStep |-> ANALYZING ]
  ELSE [ screenshot |-> [data |-> "figma-shot", format |-> "png"],
         currentStep |-> ANALYZING ]

AnalyzeCalls(s, r) ==
  IF s.designContext = Unset THEN <<>> ELSE <<ConnectorCall("analyzeBlockStructure", r)>>

\* analyzeBlockStructure reads result.data.contentStructure.containerFields
\* of a successful result: a TypeError when the data has no contentStructure
AnalyzeThrows(s, r) == s.designContext # Unset /\ r = "malformed"

AnalyzeBlockStructure(s, r) ==
  IF s.designContext = Unset
  THEN [ currentStep |-> FAILED,
         errors |-> Append(s.errors,
           WorkflowError(ANALYZING, "No design context available for analysis", FALSE)) ]
  ELSE IF ~Success(r)
  THEN [ currentStep |-> FAILED,
         errors |-> Append(s.errors, WorkflowError(ANALYZING, r, TRUE)) ]
  ELSE [ analysis |-> "analysis", currentStep |-> GENERATING ]

GenerateCalls(s, r) ==
  IF s.designContext = Unset THEN <<>> ELSE <<ConnectorCall("generateEdsBlock", r)>>

GenerateEdsBlock(s, r) ==
  IF s.designContext = Unset
  THEN [ currentStep |-> FAILED,
         errors |-> Append(s.errors,
           WorkflowError(GENERATING, "No design context available for generation", FALSE)) ]
  ELSE IF ~Success(r)
  THEN [ currentStep |-> FAILED,
         errors |-> Append(s.errors, WorkflowError(GENERATING, r, TRUE)) ]
  ELSE [ generatedFiles |-> "files",
         currentStep |-> IF s.input.validateOutput THEN VALIDATING
                         ELSE IF s.input.updateSectionModel
                              THEN UPDATING_SECTION_MODEL ELSE COMPLETED ]

\* validateBlock reads result.data.errors.length of a successful result: a
\* TypeError when the data has no errors list
ValidateThrows(s, r) == r = "malformed"

\* validateBlock recording a failed validation call in errors
ValidateBlockRecordingError(s, r) ==
  IF ~Success(r)
  THEN [ currentStep |-> IF s.input.updateSectionModel
                         THEN UPDATING_SECTION_MODEL ELSE COMPLETED,
         errors |-> Append(s.errors, WorkflowError(VALIDATING, r, TRUE)) ]
  ELSE [ validation |-> "validation",
         currentStep |-> IF s.input.updateSectionModel
                         THEN UPDATING_SECTION_MODEL ELSE COMPLETED ]

ValidateBlock(s, r) ==
  IF ~Success(r)
  THEN [ currentStep |-> IF s.input.updateSectionModel
                         THEN UPDATING_SECTION_MODEL ELSE COMPLETED ]
  ELSE [ validation |-> "validation",
         currentStep |-> IF s.input.updateSectionModel
                         THEN UPDATING_SECTION_MODEL ELSE COMPLETED ]

CompleteWorkflow(s) ==
  [ currentStep |-> COMPLETED,
    endTime |-> ToISOString(clock),
    duration |-> TimeBetween(ToISOString(clock), s.startTime) ]

\* handleFailure leaving the end of the run unstamped
HandleFailureUnstamped(s) == [ currentStep |-> FAILED ]

HandleFailure(s) ==
  [ currentStep |-> FAILED,
    endTime |-> ToISOString(clock),
    duration |-> TimeBetween(ToISOString(clock), s.startTime) ]

\* resumeWithUserInput
ResumeWithUserInput(s, userInput) ==
  IF s.awaitingUserInput = Unset
  THEN [ currentStep |-> s.currentStep ]
  ELSE IF s.awaitingUserInput = "screenshot"
  THEN IF ~userInput.isObject /\ ToLowerCase(userInput.text) = "skip"
       THEN [ awaitingUserInput |-> Unset, currentStep |-> ANALYZING ]
       ELSE IF userInput.isObject /\ Len(userInput.data) > 0
       THEN [ screenshot |-> [data |-> userInput.data, format |-> userInput.format],
              userProvidedScreenshot |-> TRUE,
              awaitingUserInput |-> Unset,
              currentStep |-> ANALYZING ]
       ELSE [ awaitingUserInput |-> Unset, currentStep |-> ANALYZING ]
  ELSE [ currentStep |-> s.currentStep ]

----------------------------------------------------------------------------
\* workflow.ts: the graph, its reducers, its checkpointer

END == "__end__"

\* the edges with extract_design wired straight to analyze
RouteAroundScreenshot(node, s) ==
  CASE node = "initialize" -> "extract_design"
    [] node = "extract_design" ->
         IF s.currentStep = FAILED THEN "fail" ELSE "analyze"
    [] node = "get_screenshot" -> "analyze"
    [] node = "analyze" ->
         IF s.currentStep = FAILED THEN "fail" ELSE "generate"
    [] node = "generate" ->
         IF s.currentStep = FAILED THEN "fail" ELSE "validate"
    [] node = "validate" -> "complete"
    [] node = "complete" -> END
    [] node = "fail" -> END

\* the edges with analyze wired to generate unconditionally
RouteIgnoringAnalyzeFailure(node, s) ==
  CASE node = "initialize" -> "extract_design"
    [] node = "extract_design" ->
         IF s.currentStep = FAILED THEN "fail" ELSE "get_screenshot"
    [] node = "get_screenshot" -> "analyze"
    [] node = "analyze" -> "generate"
    [] node = "generate" ->
         IF s.currentStep = FAILED THEN "fail" ELSE "validate"
    [] node = "validate" -> "complete"
    [] node = "complete" -> END
    [] node = "fail" -> END

\* the edges with generate wired to validate unconditionally
RouteIgnoringGenerateFailure(node, s) ==
  CASE node = "initialize" -> "extract_design"
    [] node = "extract_design" ->
         IF s.currentStep = FAILED THEN "fail" ELSE "get_screenshot"
    [] node = "get_screenshot" -> "analyze"
    [] node = "analyze" ->
         IF s.currentStep = FAILED THEN "fail" ELSE "generate"
    [] node = "generate" -> "validate"
    [] node = "validate" -> "complete"
    [] node = "complete" -> END
    [] node = "fail" -> END

\* the edges of createLangGraphWorkflow
Route(node, s) ==
  CASE node = "initialize" -> "extract_design"
    [] node = "extract_design" ->
         IF s.currentStep = FAILED THEN "fail" ELSE "get_screenshot"
    [] node = "get_screenshot" ->
         IF s.currentStep = FAILED THEN "fail"
         ELSE IF s.currentStep = AWAITING_USER_INPUT THEN END
         ELSE "analyze"
    [] node = "analyze" ->
         IF s.currentStep = FAILED THEN "fail" ELSE "generate"
    [] node = "generate" ->
         IF s.currentStep = FAILED THEN "fail" ELSE "validate"
    [] node = "validate" ->
         IF s.currentStep = FAILED THEN "fail" ELSE "complete"
    [] node = "complete" -> END
    [] node = "fail" -> END

\* WorkflowStateAnnotation: errors appends, every other channel keeps the
\* last value written
Merge(s, update) ==
  [ f \in DOMAIN s |->
      IF f \in DOMAIN update
      THEN IF f = "errors" THEN s.errors \o update.errors ELSE update[f]
      ELSE s[f] ]

NoCheckpoint == [exists |-> FALSE, values |-> EmptyValues, next |-> END]
Checkpoint(values, next) == [exists |-> TRUE, values |-> values, next |-> next]

\* createWorkflow handing every graph one checkpointer that it empties
CreateWorkflowShared(sv, t) == [u \in DOMAIN sv |-> NoCheckpoint]

\* createWorkflow(mcpClient): no checkpointer is passed, so the graph is
\* compiled with a MemorySaver of its own, which holds nothing
CreateWorkflow(sv, t) == [sv EXCEPT ![t] = NoCheckpoint]

\* graph.getState(config)
GetState(sv, t) == sv[t]

\* graph.invoke(input, config): the input is written over the thread's
\* checkpointed values and the graph starts at its entry node
Invoke(t, sv, input) ==
  LET values == Merge(GetState(sv, t).values, input)
  IN /\ st' = [st EXCEPT ![t] = values]
     /\ saver' = [sv EXCEPT ![t] = Checkpoint(values, "initialize")]
     /\ pc' = [pc EXCEPT ![t] = "initialize"]
     /\ result' = [result EXCEPT ![t] = EmptyValues]
     /\ ran' = [ran EXCEPT ![t] = <<>>]
     /\ conn' = [conn EXCEPT ![t] = <<>>]

\* one step of the graph: the node's update is merged, the checkpoint is
\* written, the node's edge is followed; at __end__ invoke returns the values
Superstep(t, node, update, calls) ==
  LET values == Merge(st[t], update)
      next == Route(node, values)
  IN /\ st' = [st EXCEPT ![t] = values]
     /\ saver' = [saver EXCEPT ![t] = Checkpoint(values, next)]
     /\ ran' = [ran EXCEPT ![t] = Append(@, node)]
     /\ conn' = [conn EXCEPT ![t] = @ \o calls]
     /\ pc' = [pc EXCEPT ![t] = IF next = END THEN "returned" ELSE next]
     /\ result' = [result EXCEPT ![t] = IF next = END THEN values ELSE @]
     /\ UNCHANGED <<clock, callers, call, ncalls, suspended>>

\* interrupt() inside a node: the node's run is abandoned without an update,
\* the checkpoint keeps the node as the one to run next, and invoke returns
\* the values as they are
Interrupt(t, node, calls) ==
  /\ saver' = [saver EXCEPT ![t] = Checkpoint(st[t], node)]
  /\ ran' = [ran EXCEPT ![t] = Append(@, node)]
  /\ conn' = [conn EXCEPT ![t] = @ \o calls]
  /\ pc' = [pc EXCEPT ![t] = "returned"]
  /\ result' = [result EXCEPT ![t] = st[t]]
  /\ suspended' = [suspended EXCEPT ![t] = TRUE]
  /\ UNCHANGED <<clock, callers, call, st, ncalls>>

\* an exception leaves a node: the node's run is abandoned without an update
\* or a checkpoint, and invoke rejects with the exception
Throw(t, node, calls) ==
  /\ ran' = [ran EXCEPT ![t] = Append(@, node)]
  /\ conn' = [conn EXCEPT ![t] = @ \o calls]
  /\ pc' = [pc EXCEPT ![t] = "threw"]
  /\ UNCHANGED <<clock, callers, call, st, saver, result, ncalls, suspended>>

NoCallInFlight(t) == pc[t] \in {"idle", "returned", "threw"}

\* runWorkflow(input, mcpClient, threadId)
RunWorkflow(t, input) ==
  /\ t \in callers
  /\ NoCallInFlight(t)
  /\ ncalls[t] < MaxCalls
  /\ Invoke(t, CreateWorkflow(saver, t),
            [input |-> input, currentStep |-> INITIALIZED, errors |-> <<>>,
             startTime |-> ToISOString(clock)])
  /\ call' = [call EXCEPT ![t] = [kind |-> "run", userInput |-> StringInput(""),
                                  input |-> input]]
  /\ ncalls' = [ncalls EXCEPT ![t] = @ + 1]
  /\ suspended' = [suspended EXCEPT ![t] = FALSE]
  /\ UNCHANGED <<clock, callers>>

\* createWorkflow(mcpClient, checkpointer).invoke(initialState, config): a
\* run on a graph compiled with a checkpointer that is kept from run to run
RunShared(t, input) ==
  /\ t \in callers
  /\ NoCallInFlight(t)
  /\ ncalls[t] < MaxCalls
  /\ Invoke(t, saver,
            [input |-> input, currentStep |-> INITIALIZED, errors |-> <<>>,
             startTime |-> ToISOString(clock)])
  /\ call' = [call EXCEPT ![t] = [kind |-> "run", userInput |-> StringInput(""),
                                  input |-> input]]
  /\ ncalls' = [ncalls EXCEPT ![t] = @ + 1]
  /\ suspended' = [suspended EXCEPT ![t] = FALSE]
  /\ UNCHANGED <<clock, callers>>

\* the test of resumeWorkflow that makes it return the checkpoint as it is
NothingToResume(checkpoint) ==
  checkpoint.values.currentStep # AWAITING_USER_INPUT

\* resumeWorkflow(userInput, mcpClient, threadId)
ResumeWorkflow(t, userInput) ==
  /\ t \in callers
  /\ NoCallInFlight(t)
  /\ ncalls[t] < MaxCalls
  /\ LET sv == CreateWorkflow(saver, t)
         checkpoint == GetState(sv, t)
     IN IF NothingToResume(checkpoint)
        THEN /\ saver' = sv
             /\ st' = [st EXCEPT ![t] = checkpoint.values]
             /\ pc' = [pc EXCEPT ![t] = "returned"]
             /\ result' = [result EXCEPT ![t] = checkpoint.values]
             /\ ran' = [ran EXCEPT ![t] = <<>>]
             /\ conn' = [conn EXCEPT ![t] = <<>>]
        ELSE Invoke(t, sv, ResumeWithUserInput(checkpoint.values, userInput))
  /\ call' = [call EXCEPT ![t] = [kind |-> "resume", userInput |-> userInput,
                                  input |-> NoInput]]
  /\ ncalls' = [ncalls EXCEPT ![t] = @ + 1]
  /\ UNCHANGED <<clock, callers, suspended>>

\* the nodes of the graph
Initialize(t) ==
  /\ pc[t] = "initialize"
  /\ Superstep(t, "initialize", InitializeWorkflow(st[t]), <<>>)

ExtractDesign(t) ==
  /\ pc[t] = "extract_design"
  /\ \E r \in ConnectorResults :
       Superstep(t, "extract_design", ExtractDesignContext(st[t], r),
                 ExtractDesignCalls(st[t], r))

GetScreenshotNode(t) ==
  /\ pc[t] = "get_screenshot"
  /\ \E r \in ConnectorResults :
       IF GetScreenshotInterrupts(st[t], r)
       THEN Interrupt(t, "get_screenshot", GetScreenshotCalls(st[t], r))
       ELSE Superstep(t, "get_screenshot", GetScreenshot(st[t], r),
                      GetScreenshotCalls(st[t], r))

Analyze(t) ==
  /\ pc[t] = "analyze"
  /\ \E r \in ConnectorResults :
       IF AnalyzeThrows(st[t], r)
       THEN Throw(t, "analyze", AnalyzeCalls(st[t], r))
       ELSE Superstep(t, "analyze", AnalyzeBlockStructure(st[t], r),
                      AnalyzeCalls(st[t], r))

Generate(t) ==
  /\ pc[t] = "generate"
  /\ \E r \in ConnectorResults :
       Superstep(t, "generate", GenerateEdsBlock(st[t], r), GenerateCalls(st[t], r))

Validate(t) ==
  /\ pc[t] = "validate"
  /\ \E r \in ConnectorResults :
       IF ValidateThrows(st[t], r)
       THEN Throw(t, "validate", <<ConnectorCall("validateBlockOutput", r)>>)
       ELSE Superstep(t, "validate", ValidateBlock(st[t], r),
                      <<ConnectorCall("validateBlockOutput", r)>>)

Complete(t) ==
  /\ pc[t] = "complete"
  /\ Superstep(t, "complete", CompleteWorkflow(st[t]), <<>>)

Fail(t) ==
  /\ pc[t] = "fail"
  /\ Superstep(t, "fail", HandleFailure(st[t]), <<>>)

WorkflowInit ==
  /\ pc = [t \in Threads |-> "idle"]
  /\ call = [t \in Threads |-> [kind |-> "none", userInput |-> StringInput(""),
                                 input |-> NoInput]]
  /\ st = [t \in Threads |-> EmptyValues]
  /\ saver = [t \in Threads |-> NoCheckpoint]
  /\ result = [t \in Threads |-> EmptyValues]
  /\ ran = [t \in Threads |-> <<>>]
  /\ conn = [t \in Threads |-> <<>>]
  /\ ncalls = [t \in Threads |-> 0]
  /\ suspended = [t \in Threads |-> FALSE]
  /\ clock = 1

\* time passes
WorkflowTick ==
  /\ clock < MaxClock
  /\ clock' = clock + 1
  /\ UNCHANGED <<callers, pc, call, st, saver, result, ran, conn, ncalls,
                 suspended>>

----------------------------------------------------------------------------
\* retry.ts: retryWithBackoff, isRetryableError

RetryConfigs ==
  [ maxRetries : 0..MaxRetriesBound,
    initialDelay : 0..MaxDelayBound,
    maxDelay : 0..MaxDelayBound,
    backoffMultiplier : 0..MaxMultiplier ]

\* what one invocation of fn ends with: "ok", or the message of the Error
\* it throws; fn may be a call under withTimeout whose deadline expires
\* withTimeout(promise, timeoutMs, errorMessage): the race of the promise
\* with the timer, which rejects with new Error(errorMessage)
DefaultErrorMessage == "Operation timed out"
WithTimeout(outcome, expired, errorMessage) ==
  IF expired THEN errorMessage ELSE outcome

FnErrors ==
  { "Request timeout", "unauthorized",
    WithTimeout("ok", TRUE, DefaultErrorMessage) }

RetryablePatterns ==
  { "timeout", "network", "connection", "econnrefused", "etimedout",
    "rate limit", "too many requests", "503", "504" }

\* isRetryableError(error) for an Error with the given message; its name
\* is "Error"
IsRetryableError(message) ==
  \E p \in RetryablePatterns :
    TestIgnoreCase(p, message) \/ TestIgnoreCase(p, "Error")

Min(a, b) == IF a < b THEN a ELSE b

\* for (...; attempt <= maxRetries; ...)
LoopContinues(a, cfg) == a <= cfg.maxRetries

\* the wait test off by one: a wait after the last attempt too
WaitsAfterEveryFailure(a, cfg) == a <= cfg.maxRetries

\* if (attempt < maxRetries) inside the catch block
WaitsBeforeRetry(a, cfg) == a < cfg.maxRetries

\* the backoff step without its cap
NextDelayUncapped(d, cfg) == d * cfg.backoffMultiplier

\* delay = Math.min(delay * backoffMultiplier, maxDelay)
NextDelay(d, cfg) == Min(d * cfg.backoffMultiplier, cfg.maxDelay)

RetryInit ==
  /\ rcfg \in RetryConfigs
  /\ attempt = 0
  /\ delay = rcfg.initialDelay
  /\ lastError = ""
  /\ fnCalls = <<>>
  /\ waits = <<>>
  /\ rpc = IF LoopContinues(0, rcfg) THEN "calling" ELSE "thrown"

\* return await fn()
FnResolves ==
  /\ rpc = "calling"
  /\ fnCalls' = Append(fnCalls, "ok")
  /\ rpc' = "returned"
  /\ UNCHANGED <<rcfg, attempt, delay, lastError, waits>>

\* fn() throws: the catch block, up to its await or to the next loop test
FnThrows ==
  /\ rpc = "calling"
  /\ \E e \in FnErrors :
       /\ fnCalls' = Append(fnCalls, e)
       /\ lastError' = e
  /\ IF WaitsBeforeRetry(attempt, rcfg)
     THEN /\ waits' = Append(waits, delay)
          /\ rpc' = "sleeping"
          /\ UNCHANGED attempt
     ELSE /\ attempt' = attempt + 1
          /\ rpc' = IF LoopContinues(attempt + 1, rcfg) THEN "calling" ELSE "thrown"
          /\ UNCHANGED waits
  /\ UNCHANGED <<rcfg, delay>>

\* the timer of the backoff wait fires
WaitEnds ==
  /\ rpc = "sleeping"
  /\ delay' = NextDelay(delay, rcfg)
  /\ attempt' = attempt + 1
  /\ rpc' = IF LoopContinues(attempt + 1, rcfg) THEN "calling" ELSE "thrown"
  /\ UNCHANGED <<rcfg, lastError, fnCalls, waits>>

\* no retryWithBackoff call in this scenario
RetryIdle ==
  /\ rcfg = [maxRetries |-> 0, initialDelay |-> 0, maxDelay |-> 0,
             backoffMultiplier |-> 0]
  /\ attempt = 0
  /\ delay = 0
  /\ lastError = ""
  /\ fnCalls = <<>>
  /\ waits = <<>>
  /\ rpc = "idle"

----------------------------------------------------------------------------
\* retry.ts: class CircuitBreaker. Its callers are asynchronous: between the
\* entry of execute and the settling of fn() other callers and timers run.

Callers == {"c1", "c2"}

NoEntry == [before |-> "none", elapsed |-> FALSE, invoked |-> FALSE]

\* this.lastFailureTime && now - this.lastFailureTime > this.resetTimeout
ResetTimeoutElapsed(t, lft, timeout) == lft # 0 /\ t - lft > timeout

\* the threshold test off by one: one failure more is needed to open
TripsPastThreshold(f, th) == f > th

\* if (this.failures >= this.threshold)
Trips(f, th) == f >= th

\* what a call meets on entry: "reject" (throws before fn), or the state it
\* runs fn in
Admission(state, t, lft, timeout) ==
  IF state = "open"
  THEN IF ResetTimeoutElapsed(t, lft, timeout) THEN "half-open" ELSE "reject"
  ELSE state

BreakerInit ==
  /\ threshold \in 1..MaxThreshold
  /\ resetTimeout \in 0..MaxResetTimeout
  /\ failures = 0
  /\ lastFailureTime = 0
  /\ bstate = "closed"
  /\ now = 1
  /\ inflight = [c \in Callers |-> "idle"]
  /\ executes = 0
  /\ lastEntry = NoEntry
  /\ fails = 0
  /\ succs = 0

\* execute with the open test inside the try block: a rejection is caught
\* and counted as a failure
ExecuteEnterCountingRejections(c) ==
  /\ inflight[c] = "idle"
  /\ executes < MaxExecutes
  /\ executes' = executes + 1
  /\ LET admitted == Admission(bstate, now, lastFailureTime, resetTimeout)
     IN /\ lastEntry' = [ before |-> bstate,
                          elapsed |-> ResetTimeoutElapsed(now, lastFailureTime,
                                                          resetTimeout),
                          invoked |-> admitted # "reject" ]
        /\ bstate' = IF admitted = "reject" THEN bstate ELSE admitted
        /\ inflight' = [inflight EXCEPT ![c] =
             IF admitted = "reject" THEN "idle"
             ELSE IF bstate = "open" THEN "trial" ELSE admitted]
        /\ failures' = IF admitted = "reject" THEN failures + 1 ELSE failures
        /\ lastFailureTime' = IF admitted = "reject" THEN now ELSE lastFailureTime
  /\ UNCHANGED <<threshold, resetTimeout, now, fails, succs>>

\* execute(fn) up to await fn(): the open test, then fn is invoked
ExecuteEnter(c) ==
  /\ inflight[c] = "idle"
  /\ executes < MaxExecutes
  /\ executes' = executes + 1
  /\ LET admitted == Admission(bstate, now, lastFailureTime, resetTimeout)
     IN /\ lastEntry' = [ before |-> bstate,
                          elapsed |-> ResetTimeoutElapsed(now, lastFailureTime,
                                                          resetTimeout),
                          invoked |-> admitted # "reject" ]
        /\ bstate' = IF admitted = "reject" THEN bstate ELSE admitted
        /\ inflight' = [inflight EXCEPT ![c] =
             IF admitted = "reject" THEN "idle"
             ELSE IF bstate = "open" THEN "trial" ELSE admitted]
  /\ UNCHANGED <<threshold, resetTimeout, failures, lastFailureTime, now,
                 fails, succs>>

\* fn() resolves: the rest of the try block
ExecuteResolves(c) ==
  /\ inflight[c] # "idle"
  /\ inflight' = [inflight EXCEPT ![c] = "idle"]
  /\ IF bstate = "half-open"
     THEN bstate' = "closed" /\ failures' = 0
     ELSE UNCHANGED <<bstate, failures>>
  /\ succs' = succs + 1
  /\ UNCHANGED <<threshold, resetTimeout, lastFailureTime, now, executes,
                 lastEntry, fails>>

\* fn() rejects: the catch block
ExecuteRejects(c) ==
  /\ inflight[c] # "idle"
  /\ inflight' = [inflight EXCEPT ![c] = "idle"]
  /\ failures' = failures + 1
  /\ lastFailureTime' = now
  /\ bstate' = IF Trips(failures + 1, threshold) THEN "open" ELSE bstate
  /\ fails' = fails + 1
  /\ UNCHANGED <<threshold, resetTimeout, now, executes, lastEntry, succs>>

\* reset() leaving the failure counter as it is
ResetKeepingFailures ==
  /\ bstate' = "closed"
  /\ lastFailureTime' = 0
  /\ fails' = 0
  /\ succs' = 0
  /\ inflight' = [c \in Callers |->
                    IF inflight[c] = "idle" THEN "idle" ELSE "before-reset"]
  /\ UNCHANGED <<threshold, resetTimeout, failures, now, executes, lastEntry>>

\* reset(). Calls in flight are from then on marked as admitted before
\* the reset; the marking is bookkeeping of the model, execute does not
\* tell them apart.
Reset ==
  /\ failures' = 0
  /\ bstate' = "closed"
  /\ lastFailureTime' = 0
  /\ fails' = 0
  /\ succs' = 0
  /\ inflight' = [c \in Callers |->
                    IF inflight[c] = "idle" THEN "idle" ELSE "before-reset"]
  /\ UNCHANGED <<threshold, resetTimeout, now, executes, lastEntry>>

\* Date.now() advances
Tick ==
  /\ now < MaxTime
  /\ now' = now + 1
  /\ UNCHANGED <<threshold, resetTimeout, failures, lastFailureTime, bstate,
                 inflight, executes, lastEntry, fails, succs>>

\* no breaker in this scenario
BreakerIdle ==
  /\ threshold = 1
  /\ resetTimeout = 0
  /\ failures = 0
  /\ lastFailureTime = 0
  /\ bstate = "closed"
  /\ now = 1
  /\ inflight = [c \in Callers |-> "idle"]
  /\ executes = 0
  /\ lastEntry = NoEntry
  /\ fails = 0
  /\ succs = 0

----------------------------------------------------------------------------
\* State persistence utilities: class StatePersistence. A state is written as JSON text
\* and read back with JSON.parse. A file's content is kept as the JSON
\* document the text denotes: objects, arrays, strings and booleans, with
\* the keys JSON.stringify left out marked absent.

BlockNames == {"hero", "hero-card"}
Keys == {"a.json", "b.json"}
StateDirs == {"states", "/var/states"}

\* an optional value that is undefined (a JavaScript value) and a key that
\* is absent (a JSON document)
NoJsError == [class |-> "undefined", message |-> Unset]
JsError(m) == [class |-> "Error", message |-> m]
EmptyObject == [class |-> "Object", message |-> "absent"]
AbsentKey == [class |-> "absent", message |-> "absent"]

\* createWorkflowError(step, message, error, retryable); given tells whether
\* the optional argument retryable is passed
CreateWorkflowError(step, message, error, given, retryable) ==
  [ step |-> step, message |-> message, error |-> error,
    retryable |-> IF given THEN retryable
                  ELSE IF error.class = "Error"
                       THEN IsRetryableError(error.message) ELSE FALSE ]

\* entries of errors: two as the stage functions build them, one built by
\* createWorkflowError from a caught Error
NoNodeIdError ==
  CreateWorkflowError(EXTRACTING_DESIGN, "No Figma node ID provided",
                      NoJsError, TRUE, FALSE)
TimeoutError ==
  CreateWorkflowError(GENERATING, "Request timeout", NoJsError, TRUE, TRUE)
CaughtError ==
  CreateWorkflowError(ANALYZING, "unauthorized", JsError("unauthorized"),
                      FALSE, FALSE)

ErrorLists ==
  { <<>>, <<NoNodeIdError, TimeoutError>>, <<TimeoutError, NoNodeIdError>>,
    <<CaughtError>> }

\* the WorkflowState values handed to saveState
StoredStates ==
  { s \in [ input : [blockName : BlockNames],
            currentStep : {COMPLETED, FAILED},
            errors : ErrorLists,
            endTime : {Unset, "2024-01-01T00:00:00.000Z"} ] :
      /\ (s.currentStep = COMPLETED) <=> (s.errors = <<>>)
      /\ (s.endTime = Unset) <=> (s.input.blockName = "hero-card") }

NoState ==
  [ input |-> [blockName |-> ""], currentStep |-> Unset, errors |-> <<>>,
    endTime |-> Unset ]

\* JSON.stringify of an entry of errors: an Error instance has no enumerable
\* property of its own and is written as {}; an undefined value is left out
StringifyError(e) ==
  [ e EXCEPT !.error = IF e.error.class = "Error" THEN EmptyObject
                       ELSE IF e.error.class = "undefined" THEN AbsentKey
                       ELSE e.error ]

\* JSON.stringify(state, null, 2)
JSONStringify(s) ==
  [ s EXCEPT !.errors = [i \in 1..Len(s.errors) |-> StringifyError(s.errors[i])],
             !.endTime = IF s.endTime = Unset THEN "absent" ELSE s.endTime ]

\* JSON.parse of an entry of errors: a key that is absent reads as undefined
ParseError(d) ==
  [ d EXCEPT !.error = IF d.error.class = "absent" THEN NoJsError
                       ELSE [ class |-> d.error.class,
                              message |-> IF d.error.message = "absent"
                                          THEN Unset ELSE d.error.message ] ]

\* JSON.parse(content)
JSONParse(d) ==
  [ d EXCEPT !.errors = [i \in 1..Len(d.errors) |-> ParseError(d.errors[i])],
             !.endTime = IF d.endTime = "absent" THEN Unset ELSE d.endTime ]

\* path.isAbsolute(p)
IsAbsolute(p) == Len(p) > 0 /\ SubSeq(p, 1, 1) = "/"

\* path.join(dir, name), for a name without "." or ".." segments
PathJoin(dir, name) ==
  IF name = "" THEN dir
  ELSE IF IsAbsolute(name) THEN dir \o name
  ELSE dir \o "/" \o name

\* new Date().toISOString().replace(/[:.]/g, '-')
TimeStamp(t) == "2024-01-01T00-00-0" \o ToString(t) \o "-000Z"

\* the name saveState gives a file when it is not passed one
GeneratedName(s, t) == s.input.blockName \o "-" \o TimeStamp(t) \o ".json"

\* filePath of loadState and deleteState
ResolvePath(dir, filename) ==
  IF IsAbsolute(filename) THEN filename ELSE PathJoin(dir, filename)

Exists(fs, p) == \E f \in fs : f.path = p
ReadFile(fs, p) == (CHOOSE f \in fs : f.path = p).content
WriteFile(fs, p, content, t) ==
  {f \in fs : f.path # p} \cup {[path |-> p, content |-> content, mtime |-> t]}
Unlink(fs, p) == {f \in fs : f.path # p}

\* the names loadState and deleteState are called with: keys, and the paths
\* saveState returned
FileNames(fs) == Keys \cup {f.path : f \in fs}

NoSave == [done |-> FALSE, state |-> NoState, filename |-> "", path |-> ""]
NoLoad == [kind |-> "none", filename |-> "", value |-> NoState]
NoCleanup == [outcome |-> "none", keepCount |-> 0, count |-> 0]
NoListing == [phase |-> "idle", names |-> {}, touched |-> {}, result |-> {}]

StoreInit ==
  /\ stateDir \in StateDirs
  /\ files = {}
  /\ stime = 1
  /\ lastSave = NoSave
  /\ loaded = NoLoad
  /\ cleaned = NoCleanup
  /\ listing = NoListing

\* saveState(state, filename); filename "" stands for the argument left out
SaveState(s, filename) ==
  LET name == IF filename = "" THEN GeneratedName(s, stime) ELSE filename
      filePath == PathJoin(stateDir, name)
  IN /\ Exists(files, filePath) \/ Cardinality(files) < MaxFiles
     /\ files' = WriteFile(files, filePath, JSONStringify(s), stime)
     /\ lastSave' = [done |-> TRUE, state |-> s, filename |-> name,
                     path |-> filePath]
     /\ cleaned' = NoCleanup
     /\ UNCHANGED <<stateDir, stime, loaded>>

\* loadState(filename); readFile throws when there is no such file
LoadState(filename) ==
  LET filePath == ResolvePath(stateDir, filename)
  IN /\ loaded' = IF Exists(files, filePath)
                  THEN [kind |-> "value", filename |-> filename,
                        value |-> JSONParse(ReadFile(files, filePath))]
                  ELSE [kind |-> "error", filename |-> filename,
                        value |-> NoState]
     /\ cleaned' = NoCleanup
     /\ UNCHANGED <<stateDir, files, stime, lastSave>>

\* deleteState(filename); unlink throws when there is no such file
DeleteState(filename) ==
  LET filePath == ResolvePath(stateDir, filename)
  IN /\ Exists(files, filePath)
     /\ files' = Unlink(files, filePath)
     /\ lastSave' = NoSave
     /\ cleaned' = NoCleanup
     /\ UNCHANGED <<stateDir, stime, loaded>>

\* the clock of the file system advances
StoreTick ==
  /\ stime < MaxStoreTime
  /\ stime' = stime + 1
  /\ cleaned' = NoCleanup
  /\ UNCHANGED <<stateDir, files, lastSave, loaded>>

\* file.endsWith(suffix)
EndsWith(file, suffix) ==
  /\ Len(file) >= Len(suffix)
  /\ SubSeq(file, Len(file) - Len(suffix) + 1, Len(file)) = suffix

\* fs.readdir(dir): the names of the files of the directory
Readdir(fs, dir) ==
  { SubSeq(f.path, Len(dir) + 2, Len(f.path)) :
      f \in {g \in fs : /\ Len(g.path) > Len(dir) + 1
                        /\ SubSeq(g.path, 1, Len(dir) + 1) = dir \o "/"} }

Stat(fs, p) == CHOOSE f \in fs : f.path = p

\* listStates(): an entry for every .json file of the state directory, the
\* latest modification first. The sort is stable, and readdir promises no
\* order: entries of one modification time come in any order.
ListStates(fs, dir) ==
  LET entries == { [name |-> file, path |-> PathJoin(dir, file),
                    mtime |-> Stat(fs, PathJoin(dir, file)).mtime] :
                     file \in {n \in Readdir(fs, dir) : EndsWith(n, ".json")} }
      n == Cardinality(entries)
  IN { states \in [1..n -> entries] :
         /\ \A i, j \in 1..n : states[i] = states[j] => i = j
         /\ \A i, j \in 1..n : i < j => states[i].mtime >= states[j].mtime }

\* listStates() up to the end of its readdir: the .json names of the
\* directory as it is now
ListStatesReaddir ==
  /\ listing.phase \in {"idle", "returned"}
  /\ listing' = [phase |-> "stat",
                 names |-> {n \in Readdir(files, stateDir) : EndsWith(n, ".json")},
                 touched |-> {},
                 result |-> {}]
  /\ UNCHANGED <<stateDir, files, stime, lastSave, loaded, cleaned>>

\* listStates() from its stats on: Promise.all of a stat per name, rejected
\* when a name has no file any more, and the catch that returns []
ListStatesStat ==
  /\ listing.phase = "stat"
  /\ listing' = [listing EXCEPT
       !.phase = "returned",
       !.result = IF \A n \in listing.names : Exists(files, PathJoin(stateDir, n))
                  THEN listing.names ELSE {}]
  /\ UNCHANGED <<stateDir, files, stime, lastSave, loaded, cleaned>>

\* a path is written or deleted while a listStates call is under way
Touch(p) ==
  listing' = IF listing.phase = "stat"
             THEN [listing EXCEPT !.touched = @ \cup {p}] ELSE listing

\* name.startsWith(prefix)
StartsWith(name, prefix) ==
  Len(name) >= Len(prefix) /\ SubSeq(name, 1, Len(prefix)) = prefix

\* findLatestState(blockName): the first entry of the list whose name starts
\* with blockName goes to loadState by its path; null when there is none
FindLatestState(blockName) ==
  \E states \in ListStates(files, stateDir) :
    LET found == {i \in 1..Len(states) : StartsWith(states[i].name, blockName)}
        matching == states[CHOOSE i \in found : \A j \in found : i <= j]
        filePath == ResolvePath(stateDir, matching.path)
    IN /\ loaded' = IF found = {}
                    THEN [kind |-> "latest-null", filename |-> blockName,
                          value |-> NoState]
                    ELSE IF Exists(files, filePath)
                    THEN [kind |-> "latest", filename |-> blockName,
                          value |-> JSONParse(ReadFile(files, filePath))]
                    ELSE [kind |-> "latest-error", filename |-> blockName,
                          value |-> NoState]
       /\ cleaned' = NoCleanup
       /\ UNCHANGED <<stateDir, files, stime, lastSave>>

KeepCounts == 0..MaxKeepCount

\* cleanupOldStates(keepCount): every entry of the list past the first
\* keepCount goes to deleteState by its path; all the unlinks are started,
\* and the call throws when one of them finds no file
CleanupOldStates(keepCount) ==
  \E states \in ListStates(files, stateDir) :
    IF Len(states) <= keepCount
    THEN /\ cleaned' = [outcome |-> "returned", keepCount |-> keepCount,
                        count |-> 0]
         /\ UNCHANGED <<stateDir, files, stime, lastSave, loaded>>
    ELSE LET toDelete == SubSeq(states, keepCount + 1, Len(states))
             targets == { ResolvePath(stateDir, toDelete[i].path) :
                            i \in 1..Len(toDelete) }
         IN /\ files' = {f \in files : f.path \notin targets}
            /\ cleaned' = IF \A p \in targets : Exists(files, p)
                          THEN [outcome |-> "returned", keepCount |-> keepCount,
                                count |-> Len(toDelete)]
                          ELSE [outcome |-> "threw", keepCount |-> keepCount,
                                count |-> 0]
            /\ lastSave' = IF \A p \in targets : ~Exists(files, p)
                           THEN lastSave ELSE NoSave
            /\ UNCHANGED <<stateDir, stime, loaded>>

\* no state directory in this scenario
StoreIdle ==
  /\ stateDir = "states"
  /\ files = {}
  /\ stime = 1
  /\ lastSave = NoSave
  /\ loaded = NoLoad
  /\ cleaned = NoCleanup
  /\ listing = NoListing

----------------------------------------------------------------------------
\* The specifications.

WorkflowIdle == callers = {} /\ WorkflowInit

Init == callers = {"t1"} /\ WorkflowInit /\ RetryIdle /\ BreakerIdle /\ StoreIdle

Next ==
  \/ \E t \in Threads, input \in WorkflowInputs :
       RunWorkflow(t, input) /\ UNCHANGED <<retryVars, breakerVars, storeVars>>
  \/ \E t \in Threads, userInput \in UserInputs :
       ResumeWorkflow(t, userInput) /\ UNCHANGED <<retryVars, breakerVars, storeVars>>
  \/ \E t \in Threads : Initialize(t) /\ UNCHANGED <<retryVars, breakerVars, storeVars>>
  \/ \E t \in Threads : ExtractDesign(t) /\ UNCHANGED <<retryVars, breakerVars, storeVars>>
  \/ \E t \in Threads : GetScreenshotNode(t) /\ UNCHANGED <<retryVars, breakerVars, storeVars>>
  \/ \E t \in Threads : Analyze(t) /\ UNCHANGED <<retryVars, breakerVars, storeVars>>
  \/ \E t \in Threads : Generate(t) /\ UNCHANGED <<retryVars, breakerVars, storeVars>>
  \/ \E t \in Threads : Validate(t) /\ UNCHANGED <<retryVars, breakerVars, storeVars>>
  \/ \E t \in Threads : Complete(t) /\ UNCHANGED <<retryVars, breakerVars, storeVars>>
  \/ \E t \in Threads : Fail(t) /\ UNCHANGED <<retryVars, breakerVars, storeVars>>
  \/ WorkflowTick /\ UNCHANGED <<retryVars, breakerVars, storeVars>>

Spec == Init /\ [][Next]_vars

\* batchExample: runs started together, one per thread, their steps
\* interleaved
BatchInputs ==
  { input \in WorkflowInputs :
      /\ ~input.skipScreenshot /\ input.validateOutput /\ ~input.updateSectionModel
      /\ input.figmaUrl = NoUrl }

InitBatch == callers = Threads /\ WorkflowInit /\ RetryIdle /\ BreakerIdle /\ StoreIdle

NextBatch ==
  \/ \E t \in Threads, input \in BatchInputs :
       RunWorkflow(t, input) /\ ncalls[t] = 0
         /\ UNCHANGED <<retryVars, breakerVars, storeVars>>
  \/ \E t \in Threads : Initialize(t) /\ UNCHANGED <<retryVars, breakerVars, storeVars>>
  \/ \E t \in Threads : ExtractDesign(t) /\ UNCHANGED <<retryVars, breakerVars, storeVars>>
  \/ \E t \in Threads : GetScreenshotNode(t) /\ UNCHANGED <<retryVars, breakerVars, storeVars>>
  \/ \E t \in Threads : Analyze(t) /\ UNCHANGED <<retryVars, breakerVars, storeVars>>
  \/ \E t \in Threads : Generate(t) /\ UNCHANGED <<retryVars, breakerVars, storeVars>>
  \/ \E t \in Threads : Validate(t) /\ UNCHANGED <<retryVars, breakerVars, storeVars>>
  \/ \E t \in Threads : Complete(t) /\ UNCHANGED <<retryVars, breakerVars, storeVars>>
  \/ \E t \in Threads : Fail(t) /\ UNCHANGED <<retryVars, breakerVars, storeVars>>
  \/ WorkflowTick /\ UNCHANGED <<retryVars, breakerVars, storeVars>>

SpecBatch == InitBatch /\ [][NextBatch]_vars

\* runs of one thread on a graph compiled with a shared checkpointer
NextShared ==
  \/ \E t \in Threads, input \in BatchInputs :
       RunShared(t, input) /\ UNCHANGED <<retryVars, breakerVars, storeVars>>
  \/ \E t \in Threads : Initialize(t) /\ UNCHANGED <<retryVars, breakerVars, storeVars>>
  \/ \E t \in Threads : ExtractDesign(t) /\ UNCHANGED <<retryVars, breakerVars, storeVars>>
  \/ \E t \in Threads : GetScreenshotNode(t) /\ UNCHANGED <<retryVars, breakerVars, storeVars>>
  \/ \E t \in Threads : Analyze(t) /\ UNCHANGED <<retryVars, breakerVars, storeVars>>
  \/ \E t \in Threads : Generate(t) /\ UNCHANGED <<retryVars, breakerVars, storeVars>>
  \/ \E t \in Threads : Validate(t) /\ UNCHANGED <<retryVars, breakerVars, storeVars>>
  \/ \E t \in Threads : Complete(t) /\ UNCHANGED <<retryVars, breakerVars, storeVars>>
  \/ \E t \in Threads : Fail(t) /\ UNCHANGED <<retryVars, breakerVars, storeVars>>
  \/ WorkflowTick /\ UNCHANGED <<retryVars, breakerVars, storeVars>>

SpecShared == Init /\ [][NextShared]_vars

InitRetry == WorkflowIdle /\ RetryInit /\ BreakerIdle /\ StoreIdle

NextRetry ==
  \/ FnResolves /\ UNCHANGED <<wfVars, breakerVars, storeVars>>
  \/ FnThrows /\ UNCHANGED <<wfVars, breakerVars, storeVars>>
  \/ WaitEnds /\ UNCHANGED <<wfVars, breakerVars, storeVars>>

SpecRetry == InitRetry /\ [][NextRetry]_vars

InitBreaker == WorkflowIdle /\ RetryIdle /\ BreakerInit /\ StoreIdle

NextBreaker ==
  \/ \E c \in Callers : ExecuteEnter(c) /\ UNCHANGED <<wfVars, retryVars, storeVars>>
  \/ \E c \in Callers : ExecuteResolves(c) /\ UNCHANGED <<wfVars, retryVars, storeVars>>
  \/ \E c \in Callers : ExecuteRejects(c) /\ UNCHANGED <<wfVars, retryVars, storeVars>>
  \/ Reset /\ UNCHANGED <<wfVars, retryVars, storeVars>>
  \/ Tick /\ UNCHANGED <<wfVars, retryVars, storeVars>>

SpecBreaker == InitBreaker /\ [][NextBreaker]_vars

InitStore == WorkflowIdle /\ RetryIdle /\ BreakerIdle /\ StoreInit

NextStore ==
  \/ \E s \in StoredStates, filename \in Keys \cup {""} :
       SaveState(s, filename) /\ UNCHANGED <<wfVars, retryVars, breakerVars, listing>>
  \/ \E filename \in FileNames(files) :
       LoadState(filename) /\ UNCHANGED <<wfVars, retryVars, breakerVars, listing>>
  \/ \E filename \in FileNames(files) :
       DeleteState(filename) /\ UNCHANGED <<wfVars, retryVars, breakerVars, listing>>
  \/ StoreTick /\ UNCHANGED <<wfVars, retryVars, breakerVars, listing>>
  \/ \E keepCount \in KeepCounts :
       CleanupOldStates(keepCount) /\ UNCHANGED <<wfVars, retryVars, breakerVars, listing>>
  \/ \E blockName \in BlockNames :
       FindLatestState(blockName) /\ UNCHANGED <<wfVars, retryVars, breakerVars, listing>>

SpecStore == InitStore /\ [][NextStore]_vars

\* listStates calls that overlap saveState and deleteState calls
ListedStates == {s \in StoredStates : s.errors = <<>>}

NextList ==
  \/ \E s \in ListedStates, filename \in Keys \cup {""} :
       SaveState(s, filename) /\ Touch(lastSave'.path)
         /\ UNCHANGED <<wfVars, retryVars, breakerVars>>
  \/ \E filename \in FileNames(files) :
       DeleteState(filename) /\ Touch(ResolvePath(stateDir, filename))
         /\ UNCHANGED <<wfVars, retryVars, breakerVars>>
  \/ ListStatesReaddir /\ UNCHANGED <<wfVars, retryVars, breakerVars>>
  \/ ListStatesStat /\ UNCHANGED <<wfVars, retryVars, breakerVars>>

SpecList == InitStore /\ [][NextList]_vars

\* resumeWithUserInput applied to a state that awaits user input: the
\* descriptor's inputType is one of the three kinds of
\* WorkflowState.awaitingUserInput
InputTypes == {"screenshot", "confirmation", "text"}

AwaitingStates ==
  { [EmptyValues EXCEPT !.input = input,
                        !.designContext = "design",
                        !.currentStep = AWAITING_USER_INPUT,
                        !.awaitingUserInput = inputType,
                        !.startTime = ToISOString(1)] :
      input \in WorkflowInputs, inputType \in InputTypes }

\* lines 185-186: the checkpointed values go through resumeWithUserInput, and
\* the update it returns is written over them, field by field
ResumeTransform(t, userInput) ==
  /\ t \in callers
  /\ pc[t] = "idle"
  /\ saver[t].exists
  /\ LET updates == ResumeWithUserInput(saver[t].values, userInput)
         values == Merge(saver[t].values, updates)
     IN /\ st' = [st EXCEPT ![t] = values]
        /\ result' = [result EXCEPT ![t] = values]
  /\ pc' = [pc EXCEPT ![t] = "returned"]
  /\ call' = [call EXCEPT ![t] = [kind |-> "resume", userInput |-> userInput,
                                  input |-> NoInput]]
  /\ UNCHANGED <<clock, callers, saver, ran, conn, ncalls, suspended>>

ResumeInit ==
  /\ callers = {"t1"}
  /\ pc = [t \in Threads |-> "idle"]
  /\ call = [t \in Threads |-> [kind |-> "none", userInput |-> StringInput(""),
                                 input |-> NoInput]]
  /\ \E s \in AwaitingStates :
       /\ st = [t \in Threads |-> IF t = "t1" THEN s ELSE EmptyValues]
       /\ saver = [t \in Threads |->
                     IF t = "t1" THEN Checkpoint(s, END) ELSE NoCheckpoint]
  /\ result = [t \in Threads |-> EmptyValues]
  /\ ran = [t \in Threads |-> <<>>]
  /\ conn = [t \in Threads |-> <<>>]
  /\ ncalls = [t \in Threads |-> 0]
  /\ suspended = [t \in Threads |-> TRUE]
  /\ clock = 1

InitResume == ResumeInit /\ RetryIdle /\ BreakerIdle /\ StoreIdle

NextResume ==
  \/ \E t \in Threads, userInput \in UserInputs :
       ResumeTransform(t, userInput) /\ UNCHANGED <<retryVars, breakerVars, storeVars>>

SpecResume == InitResume /\ [][NextResume]_vars

----------------------------------------------------------------------------
\* Claims about runWorkflow and resumeWorkflow (specification Spec).

RunReturned(t) == call[t].kind = "run" /\ pc[t] = "returned"
ResumeReturned(t) == call[t].kind = "resume" /\ pc[t] = "returned"

CallSucceeded(t, tool) ==
  \E i \in 1..Len(conn[t]) : conn[t][i].tool = tool /\ Success(conn[t][i].result)
CallFailed(t, tool) ==
  \E i \in 1..Len(conn[t]) : conn[t][i].tool = tool /\ ~Success(conn[t][i].result)
Ran(t, node) == \E i \in 1..Len(ran[t]) : ran[t][i] = node

\* C1: every runWorkflow call returns a state whose currentStep is COMPLETED,
\* FAILED or AWAITING_USER_INPUT, never an intermediate stage marker.
C1_RunEndsInTerminalStep ==
  \A t \in Threads :
    RunReturned(t) =>
      result[t].currentStep \in {COMPLETED, FAILED, AWAITING_USER_INPUT}

\* C2: when getDesignContext succeeds and getScreenshot fails, runWorkflow
\* returns with currentStep = AWAITING_USER_INPUT and an awaitingUserInput
\* descriptor of input type 'screenshot', and analyze, generate and validate
\* have not run.
C2_ScreenshotFailureSuspends ==
  \A t \in Threads :
    ( RunReturned(t) /\ CallSucceeded(t, "getDesignContext")
      /\ CallFailed(t, "getScreenshot") ) =>
      /\ result[t].currentStep = AWAITING_USER_INPUT
      /\ result[t].awaitingUserInput = "screenshot"
      /\ ~Ran(t, "analyze") /\ ~Ran(t, "generate") /\ ~Ran(t, "validate")

\* C3: after runWorkflow has returned suspended on a thread, resumeWorkflow
\* with 'skip' on that thread returns COMPLETED with screenshot left unset.
C3_ResumeSkipCompletes ==
  \A t \in Threads :
    ( ResumeReturned(t) /\ suspended[t]
      /\ call[t].userInput = StringInput("skip") ) =>
      /\ result[t].currentStep = COMPLETED
      /\ result[t].screenshot = NoScreenshot

\* C4: resuming a thread suspended for a screenshot with { data, format }
\* returns COMPLETED with screenshot.data equal to the given data and
\* userProvidedScreenshot = true.
C4_ResumeWithScreenshotCompletes ==
  \A t \in Threads :
    ( ResumeReturned(t) /\ suspended[t]
      /\ call[t].userInput.isObject /\ Len(call[t].userInput.data) > 0 ) =>
      /\ result[t].currentStep = COMPLETED
      /\ result[t].screenshot.data = call[t].userInput.data
      /\ result[t].userProvidedScreenshot

\* C5: a resumeWorkflow call on a thread whose stored checkpoint (the one the
\* thread's previous call left) has a currentStep other than
\* AWAITING_USER_INPUT returns that stored state as it is, runs no stage
\* function, calls no connector and writes no checkpoint (the saver of the
\* graph it built is left as createWorkflow made it).
C5_ResumeOfNonSuspendedIsNoop ==
  [][ \A t \in Threads :
        ( /\ call'[t].kind = "resume" /\ ncalls'[t] = ncalls[t] + 1
          /\ saver[t].exists
          /\ saver[t].values.currentStep # AWAITING_USER_INPUT ) =>
            /\ pc'[t] = "returned"
            /\ result'[t] = saver[t].values
            /\ saver'[t] = GetState(CreateWorkflow(saver, t), t)
            /\ ran'[t] = <<>>
            /\ conn'[t] = <<>> ]_vars

----------------------------------------------------------------------------
\* Claims about retryWithBackoff (specification SpecRetry).

AllFailed == \A i \in 1..Len(fnCalls) : fnCalls[i] # "ok"
RetryEnded == rpc \in {"returned", "thrown"}

\* C6: with maxRetries = N >= 0, fn is invoked at most N + 1 times; when
\* every invocation fails, fn is invoked exactly N + 1 times, there are
\* exactly N waits, none after the last attempt, and the call throws.
C6_AttemptsAndWaits ==
  /\ Len(fnCalls) <= rcfg.maxRetries + 1
  /\ Len(waits) <= rcfg.maxRetries
  /\ (rpc = "sleeping") => Len(fnCalls) <= rcfg.maxRetries
  /\ (RetryEnded /\ AllFailed) =>
       /\ rpc = "thrown"
       /\ Len(fnCalls) = rcfg.maxRetries + 1
       /\ Len(waits) = rcfg.maxRetries
  /\ (rpc = "thrown") => AllFailed

\* a call with maxRetries >= 2 has thrown after fn failed every time
C6_Witness ==
  /\ rpc = "thrown"
  /\ rcfg.maxRetries >= 2
  /\ AllFailed
  /\ Len(fnCalls) = rcfg.maxRetries + 1
  /\ Len(waits) = rcfg.maxRetries

NonDecreasing(seq) == \A i \in 1..(Len(seq) - 1) : seq[i] <= seq[i + 1]
CappedAt(seq, cap) == \A i \in 1..Len(seq) : seq[i] <= cap

\* C7 as stated: under every retry configuration the delays waited are
\* non-decreasing and each of them, the first included, is at most maxDelay.
C7_DelaysMonotoneAndCapped ==
  NonDecreasing(waits) /\ CappedAt(waits, rcfg.maxDelay)

\* C7 amended: under every retry configuration with initialDelay <= maxDelay
\* and backoffMultiplier >= 1, the delays waited are non-decreasing and each
\* of them is at most maxDelay.
C7_DelaysMonotoneAndCappedWhenConfigOrdered ==
  ( rcfg.initialDelay <= rcfg.maxDelay /\ rcfg.backoffMultiplier >= 1 ) =>
    ( NonDecreasing(waits) /\ CappedAt(waits, rcfg.maxDelay) )

\* two waits, the second one cut down to maxDelay by the cap
C7_Witness ==
  /\ rcfg.initialDelay <= rcfg.maxDelay
  /\ rcfg.backoffMultiplier >= 2
  /\ Len(waits) >= 2
  /\ waits[1] < waits[2]
  /\ waits[2] = rcfg.maxDelay
  /\ waits[1] * rcfg.backoffMultiplier > rcfg.maxDelay

\* C8: when fn fails with an error isRetryableError classifies as permanent,
\* there is no wait and no further attempt: that invocation is the last one
\* and the error is raised at once.
C8_PermanentErrorIsNotRetried ==
  \A i \in 1..Len(fnCalls) :
    ( fnCalls[i] # "ok" /\ ~IsRetryableError(fnCalls[i]) ) =>
      ( i = Len(fnCalls) /\ Len(waits) < i /\ rpc = "thrown" )

----------------------------------------------------------------------------
\* Claims about CircuitBreaker (specification SpecBreaker).

\* since the breaker was constructed or reset, calls have only failed
OnlyFailuresSoFar == succs = 0

C10_OneTrialCallWhileHalfOpen ==
  /\ (lastEntry.before = "half-open") => ~lastEntry.invoked
  /\ Cardinality({c \in Callers : inflight[c] \in {"trial", "half-open"}}) <= 1

\* C11: the counter counts consecutive failures: a call that succeeds while
\* the breaker is closed resets it to 0, so that only threshold failures with
\* no success in between open the breaker.
C11_SuccessResetsCounter ==
  [][ (succs' = succs + 1 /\ bstate = "closed") => failures' = 0 ]_vars

\* C12: when the half-open trial call succeeds, the state becomes closed and
\* the failure counter 0.
C12_TrialSuccessCloses ==
  [][ \A c \in Callers :
        ( inflight[c] = "trial" /\ inflight'[c] = "idle"
          /\ succs' = succs + 1 ) =>
            ( bstate' = "closed" /\ failures' = 0 ) ]_vars

\* C13: when the half-open trial call fails, the state becomes open and the
\* timeout window starts again at that failure; and a call that meets the
\* breaker open before resetTimeout has elapsed since the last failure is
\* not attempted.
C13_TrialFailureReopens ==
  [][ /\ \A c \in Callers :
           ( inflight[c] = "trial" /\ inflight'[c] = "idle"
             /\ fails' = fails + 1 ) =>
               ( bstate' = "open" /\ lastFailureTime' = now )
      /\ ( executes' = executes + 1 /\ bstate = "open"
           /\ now - lastFailureTime <= resetTimeout ) =>
             ~lastEntry'.invoked ]_vars

----------------------------------------------------------------------------
\* Further claims about runWorkflow and resumeWorkflow (specification Spec).

CallReturned(t, tool, r) ==
  \E i \in 1..Len(conn[t]) : conn[t][i] = ConnectorCall(tool, r)
CallsOf(t, tool) == {i \in 1..Len(conn[t]) : conn[t][i].tool = tool}
IsPrefix(a, b) == Len(a) <= Len(b) /\ SubSeq(b, 1, Len(a)) = a

\* C15: a run in which design extraction, screenshot capture and analysis
\* succeed and the generation connector answers 'unauthorized' returns FAILED
\* with exactly one entry in errors, whose retryable is false.
C15_PermanentGenerationErrorFails ==
  \A t \in Threads :
    ( RunReturned(t) /\ CallSucceeded(t, "getDesignContext")
      /\ CallSucceeded(t, "getScreenshot")
      /\ CallSucceeded(t, "analyzeBlockStructure")
      /\ CallReturned(t, "generateEdsBlock", "unauthorized") ) =>
      /\ result[t].currentStep = FAILED
      /\ Len(result[t].errors) = 1
      /\ ~result[t].errors[1].retryable

\* C16: a stage fails or suspends on a transient connector failure only
\* after the connector has been tried again: when the stage's last connector
\* call failed with a retryable error and the run is FAILED or suspended,
\* that connector has been called more than once.
C16_TransientFailureIsRetried ==
  \A t \in Threads :
    ( Len(conn[t]) > 0 /\ ~Success(conn[t][Len(conn[t])].result)
      /\ IsRetryableError(conn[t][Len(conn[t])].result)
      /\ (st[t].currentStep = FAILED \/ suspended[t]) ) =>
      Cardinality(CallsOf(t, conn[t][Len(conn[t])].tool)) > 1

\* C18: across every stage transition and every resume of a thread the
\* errors list of the thread's new state has the previous errors list as a
\* prefix (the start of a new run apart).
C18_ErrorsOnlyAppended ==
  [][ \A t \in Threads :
        \/ call'[t].kind = "run" /\ ncalls'[t] = ncalls[t] + 1
        \/ IsPrefix(st[t].errors, st'[t].errors) ]_vars

\* C19: in every checkpoint of a run, currentStep = COMPLETED only when the
\* complete stage has run.
C19_CompletedOnlyAfterComplete ==
  \A t \in Threads :
    ( call[t].kind = "run" /\ saver[t].exists
      /\ saver[t].values.currentStep = COMPLETED ) => Ran(t, "complete")

\* C20: in every state of a run, state.input is the input runWorkflow was
\* called with.
C20_InputNeverChanges ==
  \A t \in Threads :
    ( call[t].kind = "run" ) => st[t].input = call[t].input

----------------------------------------------------------------------------
\* Claims about StatePersistence (specification SpecStore).

\* C14: a loadState(k) that follows a saveState(s, k) with no write or
\* delete in between returns a value deep-equal to s, the errors list with
\* its entries in the same order included.
C14_SaveThenLoadRoundTrip ==
  [][ ( lastSave.done /\ loaded' # loaded
        /\ loaded'.filename = lastSave.filename ) =>
          ( loaded'.kind = "value" /\ loaded'.value = lastSave.state ) ]_vars

----------------------------------------------------------------------------
\* Claims about the stages of a run (specification Spec).

\* the input of the run has no node id and no URL parseFigmaUrl finds one in
NoNodeIdToBeHad(input) ==
  /\ input.figmaNodeId = Unset
  /\ ~input.figmaUrl.present \/ ParseFigmaUrl(input.figmaUrl).nodeId = Unset

\* C21: a run whose input has no node id and no URL a node id can be parsed
\* from makes no connector call at any point, and returns FAILED with
\* exactly one error, whose retryable is false.
C21_NoNodeIdFailsBeforeAnyCall ==
  \A t \in Threads :
    ( call[t].kind = "run" /\ NoNodeIdToBeHad(call[t].input) ) =>
      /\ conn[t] = <<>>
      /\ RunReturned(t) =>
           /\ result[t].currentStep = FAILED
           /\ Len(result[t].errors) = 1
           /\ ~result[t].errors[1].retryable

\* a run on a URL that is not a design or file URL has returned FAILED
C21_Witness ==
  \E t \in Threads :
    /\ RunReturned(t)
    /\ NoNodeIdToBeHad(call[t].input)
    /\ call[t].input.figmaUrl.present
    /\ result[t].currentStep = FAILED
    /\ ran[t] = <<"initialize", "extract_design", "fail">>

PipelineOrder ==
  << "initialize", "extract_design", "get_screenshot", "analyze", "generate",
     "validate", "complete" >>

\* the stages a call has executed, the fail handler at the end left out
PipelineStagesRan(t) ==
  IF Len(ran[t]) > 0 /\ ran[t][Len(ran[t])] = "fail"
  THEN SubSeq(ran[t], 1, Len(ran[t]) - 1) ELSE ran[t]

\* C22: the stages a run has executed are, in order, a prefix of initialize,
\* extract_design, get_screenshot, analyze, generate, validate, complete
\* (followed by fail when the run failed); the stage about to run is the one
\* that comes next or fail; no connector is called twice in a run.
C22_StagesRunOnceInOrder ==
  \A t \in Threads :
    ( call[t].kind = "run" ) =>
      /\ IsPrefix(PipelineStagesRan(t), PipelineOrder)
      /\ ( pc[t] \notin {"idle", "returned", "threw", "fail"} ) =>
           ( ran[t] = PipelineStagesRan(t)
             /\ Len(ran[t]) < Len(PipelineOrder)
             /\ pc[t] = PipelineOrder[Len(ran[t]) + 1] )
      /\ \A i, j \in 1..Len(conn[t]) :
           conn[t][i].tool = conn[t][j].tool => i = j

\* a run has executed the seven stages and made the five connector calls
C22_Witness ==
  \E t \in Threads :
    /\ RunReturned(t)
    /\ ran[t] = PipelineOrder
    /\ Len(conn[t]) = 5
    /\ result[t].currentStep = COMPLETED

\* C23: when the state a stage has returned into has currentStep = FAILED, the
\* stage that runs next is fail; fail makes no connector call and the run
\* returns after it.
C23_FailedRoutesToFailAndEnds ==
  [][ \A t \in Threads :
        /\ ( ran'[t] # ran[t] /\ pc[t] # "fail"
             /\ st'[t].currentStep = FAILED ) => pc'[t] = "fail"
        /\ ( ran'[t] # ran[t] /\ pc[t] = "fail" ) =>
             ( pc'[t] = "returned" /\ conn'[t] = conn[t]
               /\ result'[t].currentStep = FAILED ) ]_vars

\* a run whose analysis failed has gone to fail and returned
C23_Witness ==
  \E t \in Threads :
    /\ RunReturned(t)
    /\ ran[t] = << "initialize", "extract_design", "get_screenshot",
                   "analyze", "fail" >>
    /\ CallFailed(t, "analyzeBlockStructure")
    /\ Len(conn[t]) = 3

\* C24: a state returned with currentStep COMPLETED or FAILED has endTime set
\* and duration = endTime - startTime >= 0; a state returned suspended has
\* neither endTime nor duration.
C24_EndOfRunIsStamped ==
  \A t \in Threads :
    ( pc[t] = "returned" ) =>
      /\ ( result[t].currentStep \in {COMPLETED, FAILED} ) =>
           /\ result[t].endTime # Unset
           /\ result[t].duration.kind = "number"
           /\ result[t].duration =
                TimeBetween(result[t].endTime, result[t].startTime)
           /\ result[t].duration.ms >= 0
      /\ ( RunReturned(t) /\ suspended[t] ) =>
           /\ result[t].endTime = Unset
           /\ result[t].duration = NoDuration

\* a failed run that took time has returned
C24_Witness ==
  \E t \in Threads :
    /\ RunReturned(t)
    /\ result[t].currentStep = FAILED
    /\ result[t].duration = Milliseconds(1)
    /\ result[t].endTime = ToISOString(2)


\* C26: in a run whose input has options.skipScreenshot set, the screenshot
\* connector (getScreenshot) is never called: after design extraction the
\* workflow goes straight to analysis.
C26_SkipScreenshotSkipsConnector ==
  \A t \in Threads :
    (call[t].kind = "run" /\ call[t].input.skipScreenshot) =>
      /\ ~Ran(t, "get_screenshot")
      /\ \A i \in 1..Len(conn[t]) : conn[t][i].tool # "getScreenshot"

\* C27: in a run whose input has options.validateOutput false, the validation
\* connector (validateBlockOutput) is never called and the returned state has
\* no validation result.
C27_NoValidateSkipsConnector ==
  \A t \in Threads :
    (call[t].kind = "run" /\ ~call[t].input.validateOutput) =>
      /\ \A i \in 1..Len(conn[t]) : conn[t][i].tool # "validateBlockOutput"
      /\ RunReturned(t) => result[t].validation = Unset

\* C28: whatever a connector call comes back with (an exception, an error
\* result, a success result with missing or malformed fields), no exception
\* leaves a stage, and a call that came back without data leaves the state
\* FAILED with a WorkflowError recorded.
C28_StagesNeverThrow ==
  \A t \in Threads :
    /\ pc[t] # "threw"
    /\ \A i \in 1..Len(conn[t]) :
         ~Success(conn[t][i].result) =>
           /\ st[t].currentStep = FAILED
           /\ Len(st[t].errors) > 0

\* C29: the error withTimeout rejects with on deadline expiry, with its
\* default message, is retryable according to isRetryableError.
C29_TimeoutIsRetryable ==
  lastError = WithTimeout("ok", TRUE, DefaultErrorMessage) =>
    IsRetryableError(lastError)

\* C33: a run that returns COMPLETED has designContext, analysis and
\* generatedFiles set, and its extraction, analysis and generation calls all
\* succeeded.
C33_CompletedHasAllArtifacts ==
  \A t \in Threads :
    ( RunReturned(t) /\ result[t].currentStep = COMPLETED ) =>
      /\ result[t].designContext # Unset
      /\ result[t].analysis # Unset
      /\ result[t].generatedFiles # Unset
      /\ CallSucceeded(t, "getDesignContext") /\ ~CallFailed(t, "getDesignContext")
      /\ CallSucceeded(t, "analyzeBlockStructure")
      /\ ~CallFailed(t, "analyzeBlockStructure")
      /\ CallSucceeded(t, "generateEdsBlock") /\ ~CallFailed(t, "generateEdsBlock")

\* a run completed although its validation call failed
C33_Witness ==
  \E t \in Threads :
    /\ RunReturned(t)
    /\ result[t].currentStep = COMPLETED
    /\ result[t].generatedFiles # Unset
    /\ CallFailed(t, "validateBlockOutput")

\* C36: once generation has succeeded the run ends in COMPLETED: whatever
\* the validation call comes back with, the workflow does not move to FAILED
\* and nothing is added to errors.
C36_ValidationNeverFailsTheRun ==
  \A t \in Threads :
    ( call[t].kind = "run" /\ CallSucceeded(t, "generateEdsBlock") ) =>
      /\ st[t].currentStep # FAILED
      /\ st[t].errors = <<>>
      /\ pc[t] # "threw"
      /\ pc[t] = "returned" => result[t].currentStep = COMPLETED

\* the step marker a stage records in the errors it adds
StepOf(node) ==
  CASE node = "extract_design" -> EXTRACTING_DESIGN
    [] node = "analyze" -> ANALYZING
    [] node = "generate" -> GENERATING
    [] OTHER -> Unset

C38_FailureAddsOneError ==
  [][ \A t \in Threads :
        ( ran'[t] # ran[t] /\ pc[t] # "fail" /\ st'[t].currentStep = FAILED ) =>
          Len(st'[t].errors) = Len(st[t].errors) + 1 ]_vars

----------------------------------------------------------------------------
\* Claims about resumeWithUserInput (specification SpecResume).

----------------------------------------------------------------------------
\* Claims about the retention cleanup (specification SpecStore).

\* the snapshots saved for a block under the name saveState generates
SnapshotsOf(fs, blockName) ==
  { f \in fs : \E t \in 0..9 :
      f.path = PathJoin(stateDir, blockName \o "-" \o TimeStamp(t) \o ".json") }

Newer(fs, f) == {g \in fs : g.mtime > f.mtime}
NotOlder(fs, f) == {g \in fs \ {f} : g.mtime >= f.mtime}

\* C30: cleanupOldStates(N) keeps, for every block name, the N snapshots of
\* that name saved last and deletes the older snapshots of that name, and
\* nothing else: a name with at most N snapshots loses none, whatever is
\* saved under other names.
C30_CleanupKeepsNPerPrefix ==
  [][ cleaned'.outcome # "none" =>
        \A blockName \in BlockNames :
          LET snapshots == SnapshotsOf(files, blockName)
              N == cleaned'.keepCount
          IN \A f \in snapshots :
               /\ Cardinality(NotOlder(snapshots, f)) < N => f \in files'
               /\ Cardinality(Newer(snapshots, f)) >= N => f \notin files'
    ]_vars


----------------------------------------------------------------------------
\* Claims about listStates (specification SpecList).

\* C31: a listStates call that overlaps a saveState or a deleteState of some
\* key returns every other key that exists throughout the call.
C31_ListingKeepsUntouchedKeys ==
  listing.phase = "returned" =>
    \A n \in listing.names :
      PathJoin(stateDir, n) \notin listing.touched => n \in listing.result


----------------------------------------------------------------------------
\* Claims about runs on distinct threads (specification SpecBatch).

\* what a node returns and which connector calls it makes
StageUpdate(node, s, r) ==
  CASE node = "initialize" -> InitializeWorkflow(s)
    [] node = "extract_design" -> ExtractDesignContext(s, r)
    [] node = "get_screenshot" -> GetScreenshot(s, r)
    [] node = "analyze" -> AnalyzeBlockStructure(s, r)
    [] node = "generate" -> GenerateEdsBlock(s, r)
    [] node = "validate" -> ValidateBlock(s, r)
    [] node = "complete" -> CompleteWorkflow(s)
    [] node = "fail" -> HandleFailure(s)

StageCalls(node, s, r) ==
  CASE node = "extract_design" -> ExtractDesignCalls(s, r)
    [] node = "get_screenshot" -> GetScreenshotCalls(s, r)
    [] node = "analyze" -> AnalyzeCalls(s, r)
    [] node = "generate" -> GenerateCalls(s, r)
    [] node = "validate" -> <<ConnectorCall("validateBlockOutput", r)>>
    [] OTHER -> <<>>

\* a run on its own, from a node on, given what its connector calls came
\* back with
RECURSIVE InvokeAlone(_, _, _)
InvokeAlone(node, s, rs) ==
  LET r == IF rs = <<>> THEN "ok" ELSE Head(rs).result
      rest == IF StageCalls(node, s, r) = <<>> \/ rs = <<>> THEN rs ELSE Tail(rs)
      values == Merge(s, StageUpdate(node, s, r))
  IN IF node = "get_screenshot" /\ GetScreenshotInterrupts(s, r)
     THEN [outcome |-> "returned", values |-> s]
     ELSE IF \/ node = "analyze" /\ AnalyzeThrows(s, r)
             \/ node = "validate" /\ ValidateThrows(s, r)
     THEN [outcome |-> "threw", values |-> s]
     ELSE IF Route(node, values) = END
     THEN [outcome |-> "returned", values |-> values]
     ELSE InvokeAlone(Route(node, values), values, rest)

RunAlone(input, rs) ==
  InvokeAlone("initialize",
              Merge(EmptyValues, [input |-> input, currentStep |-> INITIALIZED,
                                  errors |-> <<>>]),
              rs)

TimesAside(s) ==
  [s EXCEPT !.startTime = Unset, !.endTime = Unset, !.duration = NoDuration]

Stepped(t) == ncalls'[t] # ncalls[t] \/ ran'[t] # ran[t]

\* C32: runs on distinct threads whose steps interleave end each as it ends
\* alone (timestamps aside), and a step of one run leaves the state, the
\* checkpoint and the result of the other as they were.
C32_RunsDoNotInterfere ==
  /\ [] ( \A t \in Threads :
            /\ RunReturned(t) =>
                 /\ RunAlone(call[t].input, conn[t]).outcome = "returned"
                 /\ TimesAside(result[t])
                      = TimesAside(RunAlone(call[t].input, conn[t]).values)
            /\ (call[t].kind = "run" /\ pc[t] = "threw") =>
                 RunAlone(call[t].input, conn[t]).outcome = "threw" )
  /\ [][ \A t \in Threads : Stepped(t) =>
           \A u \in Threads \ {t} :
             /\ st'[u] = st[u] /\ saver'[u] = saver[u]
             /\ result'[u] = result[u] /\ pc'[u] = pc[u]
             /\ ran'[u] = ran[u] /\ conn'[u] = conn[u] ]_vars

C32_Witness ==
  /\ RunReturned("t1") /\ RunReturned("t2")
  /\ result["t1"].startTime = ToISOString(1) /\ result["t1"].endTime = ToISOString(2)
  /\ result["t2"].startTime = ToISOString(1) /\ result["t2"].endTime = ToISOString(2)
  /\ result["t1"].currentStep = COMPLETED
  /\ result["t2"].currentStep = FAILED


----------------------------------------------------------------------------
\* Further claims about CircuitBreaker (specification SpecBreaker).

\* C34: an execute call rejected because the breaker is open and
\* resetTimeout has not elapsed leaves the failure counter, the last-failure
\* time and the state as they were.
C34_RejectionChangesNothing ==
  [][ ( executes' = executes + 1 /\ ~lastEntry'.invoked ) =>
        /\ bstate = "open"
        /\ ~ResetTimeoutElapsed(now, lastFailureTime, resetTimeout)
        /\ failures' = failures
        /\ lastFailureTime' = lastFailureTime
        /\ bstate' = bstate ]_vars

\* a call was rejected some time after the failure that opened the breaker
C34_Witness ==
  /\ lastEntry.before = "open" /\ ~lastEntry.invoked
  /\ bstate = "open"
  /\ now > lastFailureTime /\ lastFailureTime > 0
  /\ failures = threshold


\* C35: in every state of a breaker with threshold >= 1, whatever the
\* interleaving of execute calls and resets, closed implies failures <
\* threshold, and open or half-open implies failures >= threshold and a
\* recorded last-failure time.
C35_StateMatchesCounter ==
  threshold >= 1 =>
    /\ bstate = "closed" => failures < threshold
    /\ bstate \in {"open", "half-open"} =>
         ( failures >= threshold /\ lastFailureTime # 0 )

\* a call admitted before a reset has failed since and opened the breaker
\* again, while another such call is still in flight
C35_Witness ==
  /\ bstate = "open"
  /\ failures = threshold
  /\ \E c \in Callers : inflight[c] = "before-reset"


----------------------------------------------------------------------------
\* Claims about findLatestState (specification SpecStore).

\* C39: findLatestState(blockName) returns a state saved for that block, its
\* input.blockName equal to blockName, or null; snapshots of another block
\* whose name starts with blockName, however recent, are not returned.
C39_LatestIsOfThatBlock ==
  [][ ( loaded' # loaded
        /\ loaded'.kind \in {"latest", "latest-null", "latest-error"} ) =>
          \/ loaded'.kind = "latest-null"
          \/ /\ loaded'.kind = "latest"
             /\ loaded'.value.input.blockName = loaded'.filename ]_vars

====
